---- MODULE Spec2Model ----
(***************************************************************************)
(* One invocation of the command line tools of @unlimiting/psc:            *)
(*   impl = "psc"   the commander/googleapis CLI  (src/unnamed/part_002)   *)
(*   impl = "lite"  the dependency-free fetch CLI (src/unnamed/part_003)   *)
(*   impl = "gh"    the gh wrapper                (src/bin/psc-gh.mjs)     *)
(* Every await of the program is an action of its own: the action that     *)
(* consumes a response also runs the code up to the next request.          *)
(***************************************************************************)
EXTENDS Integers, Sequences, FiniteSets, TLC

(* ---------------------------------------------------------------------- *)
(* Values                                                                  *)
(* ---------------------------------------------------------------------- *)

\* JavaScript undefined, for string-valued fields.
Undef == "(undefined)"

\* Characters are integers: token characters are positive, punctuation is not.
Star == 0
Dot == 0 - 1
Dots == <<Dot, Dot, Dot>>
NoneText == <<0 - 2, 0 - 3, 0 - 4, 0 - 3, 0 - 5, 0 - 6>>

\* A token of n pairwise different characters, as a token endpoint returns it.
Token(n) == [i \in 1..n |-> i]
NoToken == <<>>

\* Lengths of the tokens the token endpoints hand out in the model: below
\* and above each of the masking thresholds 6 + 4, 12 and 10 + 6.
MaxTokenLen == 20
TokenLens == {4, 11, 14, MaxTokenLen}
Tokens == {Token(n) : n \in TokenLens}

\* Numbers: JavaScript Number(raw), in tenths, or NaN, or undefined.
Num(t) == [t |-> "num", v |-> t]
NaN == [t |-> "nan", v |-> 0]
NoNum == [t |-> "undef", v |-> 0]

\* Raw option strings of --user-fraction and --in-app-update-priority.
RawFractions == {Undef, "0", "0.1", "1", "abc"}
RawPriorities == {Undef, "5", "6", "2.5"}
RawStatuses == {Undef, "completed", "inProgress", "bogus"}

\* Number(raw) of the raw option strings above.
ToNumber(raw) ==
  CASE raw = "0" -> Num(0)
    [] raw = "0.1" -> Num(1)
    [] raw = "1" -> Num(10)
    [] raw = "5" -> Num(50)
    [] raw = "6" -> Num(60)
    [] raw = "2.5" -> Num(25)
    [] OTHER -> NaN

\* What the server may answer.
EditIds == {"E1", "E2"}
VersionCodes == {"42"}
HttpErrors == {"403", "500"}
ApiMessages == {"denied", Undef}

\* The body of a non-2xx response: JSON with error.message and error.status,
\* JSON with error.status only, or text that is not JSON.
TextBody == "<html>"
ErrorBodies == ApiMessages \cup {TextBody}
BodyParts(body) ==
  CASE body = TextBody -> <<TextBody>>
    [] body = Undef -> <<"PERMISSION_DENIED">>
    [] OTHER -> <<body, "PERMISSION_DENIED">>
\* error.response.data.error.message of such a body
apiMessageOf(body) == IF body \in {Undef, TextBody} THEN Undef ELSE body

Range(s) == {s[i] : i \in DOMAIN s}

(* ---------------------------------------------------------------------- *)
(* Secret masking                                                          *)
(* ---------------------------------------------------------------------- *)

\* String.prototype.slice(0, n)
SliceHead(s, n) == SubSeq(s, 1, IF n < Len(s) THEN n ELSE Len(s))

\* String.prototype.slice(-n), n > 0
SliceTail(s, n) == SubSeq(s, (IF n < Len(s) THEN Len(s) - n ELSE 0) + 1, Len(s))

\* The tail is cut with the prefix length: value.slice(-visiblePrefix).
maskValueWideTail(value, visiblePrefix, visibleSuffix) ==
  IF Len(value) = 0 THEN NoneText
  ELSE IF Len(value) <= visiblePrefix + visibleSuffix
       THEN [i \in 1..Len(value) |-> Star]
       ELSE SliceHead(value, visiblePrefix) \o Dots \o SliceTail(value, visiblePrefix)

maskValue(value, visiblePrefix, visibleSuffix) ==
  IF Len(value) = 0 THEN NoneText
  ELSE IF Len(value) <= visiblePrefix + visibleSuffix
       THEN [i \in 1..Len(value) |-> Star]
       ELSE SliceHead(value, visiblePrefix) \o Dots \o SliceTail(value, visibleSuffix)

maskToken(token) == SliceHead(token, 6) \o Dots \o SliceTail(token, 4)

\* part_003, auth token: String(accessToken).slice(0, 12) + '...'
liteTokenPreview(accessToken) == SliceHead(accessToken, 12) \o Dots

(* ---------------------------------------------------------------------- *)
(* Errors                                                                  *)
(* ---------------------------------------------------------------------- *)

\* An error object: a CliError thrown by the program, a plain Error, or the
\* error the HTTP library throws for a non-2xx response.
CliError(text) ==
  [isCli |-> TRUE, status |-> Undef, apiMessage |-> Undef, message |-> <<text>>]

PlainError(parts) ==
  [isCli |-> FALSE, status |-> Undef, apiMessage |-> Undef, message |-> parts]

\* googleapis rejects with error.response.status / error.response.data.error
ApiError(status, apiMessage) ==
  [isCli |-> FALSE, status |-> status, apiMessage |-> apiMessage,
   message |-> <<"Request failed with status code ", status>>]

NoError == PlainError(<<>>)

normalizeGoogleApiError(error) ==
  IF error.isCli THEN error
  ELSE LET message == IF error.apiMessage # Undef THEN <<error.apiMessage>>
                      ELSE IF error.message # <<>> THEN error.message
                      ELSE <<"unknown error">>
       IN [isCli |-> TRUE, status |-> Undef, apiMessage |-> Undef,
           message |-> IF error.status # Undef
                       THEN <<"[HTTP ", error.status, "] ">> \o message
                       ELSE message]

\* The error is thrown without the detail: `HTTP ${res.status} ${res.statusText}`.
jsonRequestErrorNoDetail(status, body) ==
  PlainError(<<"HTTP ", status, " ", "\n">>)

\* part_003 jsonRequest: `HTTP ${res.status} ${res.statusText}\n${detail}`
jsonRequestError(status, body) ==
  PlainError(<<"HTTP ", status, " ", "\n">> \o BodyParts(body))

\* part_003 exchangeAccessToken: `oauth token exchange failed (${status}): ${detail}`
exchangeError(status, body) ==
  PlainError(<<"oauth token exchange failed (", status, "): ">> \o BodyParts(body))

\* psc-gh issueInstallationToken, non-2xx: response.json().catch(() => ({}))
issueError(status, body) ==
  PlainError(<<"token issue failed (", status, "): ">>
               \o (IF body = TextBody THEN <<"{}">> ELSE BodyParts(body)))

(* ---------------------------------------------------------------------- *)
(* Credential loading                                                      *)
(* ---------------------------------------------------------------------- *)

\* A credential source is absent, or holds a usable credential, or is
\* unusable: "malformed" JSON/PEM, "noemail" (no client_email), "nokey" (no
\* private_key), "nofile" (a path to a file that does not exist).
SourceStates == {"absent", "valid", "malformed", "noemail", "nokey", "nofile"}

Sources(inline, explicit, envPath, std) ==
  [inline |-> inline, explicit |-> explicit, envPath |-> envPath, std |-> std]

\* The credential environments of the invocations of the main specification.
CredEnvs ==
  { Sources("absent", "absent", "absent", "absent"),
    Sources("valid", "absent", "absent", "absent"),
    Sources("malformed", "valid", "absent", "absent"),
    Sources("absent", "nofile", "absent", "valid") }

Loaded(source) == [ok |-> TRUE, source |-> source, error |-> NoError]
NotLoaded(error) == [ok |-> FALSE, source |-> "none", error |-> error]

validateServiceAccount(state) ==
  IF state \in {"noemail", "nokey"}
  THEN CliError("client_email or private_key missing")
  ELSE NoError

\* The path is PSC_SERVICE_ACCOUNT_JSON_PATH || --credentials ||
\* GOOGLE_APPLICATION_CREDENTIALS: the variable is taken before the option.
loadCredentialsEnvPathFirst(c) ==
  IF c.inline # "absent"
  THEN IF c.inline = "malformed"
       THEN NotLoaded(CliError("PSC_SERVICE_ACCOUNT_JSON is not valid JSON"))
       ELSE IF validateServiceAccount(c.inline) # NoError
            THEN NotLoaded(validateServiceAccount(c.inline))
            ELSE Loaded("inline")
  ELSE LET from == IF c.envPath # "absent" THEN "envPath"
                   ELSE IF c.explicit # "absent" THEN "explicit"
                   ELSE IF c.std # "absent" THEN "std"
                   ELSE "none"
       IN IF from = "none"
          THEN NotLoaded(CliError("service account credentials not found"))
          ELSE IF c[from] = "nofile"
               THEN NotLoaded(CliError("service account file does not exist"))
               ELSE IF c[from] = "malformed"
                    THEN NotLoaded(CliError("service account file JSON parse failed"))
                    ELSE IF validateServiceAccount(c[from]) # NoError
                         THEN NotLoaded(validateServiceAccount(c[from]))
                         ELSE Loaded(from)

\* part_002: PSC_SERVICE_ACCOUNT_JSON, then --credentials ||
\* PSC_SERVICE_ACCOUNT_JSON_PATH || GOOGLE_APPLICATION_CREDENTIALS.
loadServiceAccountCredentials(c) ==
  IF c.inline # "absent"
  THEN IF c.inline = "malformed"
       THEN NotLoaded(CliError("PSC_SERVICE_ACCOUNT_JSON is not valid JSON"))
       ELSE IF validateServiceAccount(c.inline) # NoError
            THEN NotLoaded(validateServiceAccount(c.inline))
            ELSE Loaded("inline")
  ELSE LET from == IF c.explicit # "absent" THEN "explicit"
                   ELSE IF c.envPath # "absent" THEN "envPath"
                   ELSE IF c.std # "absent" THEN "std"
                   ELSE "none"
       IN IF from = "none"
          THEN NotLoaded(CliError("service account credentials not found"))
          ELSE IF c[from] = "nofile"
               THEN NotLoaded(CliError("service account file does not exist"))
               ELSE IF c[from] = "malformed"
                    THEN NotLoaded(CliError("service account file JSON parse failed"))
                    ELSE IF validateServiceAccount(c[from]) # NoError
                         THEN NotLoaded(validateServiceAccount(c[from]))
                         ELSE Loaded(from)

\* part_003: --service-account-json ?? PLAY_SERVICE_ACCOUNT_JSON_PATH first,
\* then the inline JSON; the parsed object is not validated:
\* exchangeAccessToken fails on a missing private_key before any request,
\* and signs and sends the assertion when client_email is missing.
readServiceAccount(c) ==
  LET from == IF c.explicit # "absent" THEN "explicit"
              ELSE IF c.envPath # "absent" THEN "envPath"
              ELSE IF c.inline # "absent" THEN "inline"
              ELSE "none"
  IN IF from = "none"
     THEN NotLoaded(PlainError(<<"service account JSON is required">>))
     ELSE IF c[from] = "nofile"
          THEN NotLoaded(PlainError(<<"ENOENT: no such file or directory">>))
          ELSE IF c[from] = "malformed"
               THEN NotLoaded(PlainError(<<"Unexpected token in JSON">>))
               ELSE IF c[from] = "nokey"
                    THEN NotLoaded(PlainError(<<"Cannot read properties of undefined">>))
                    ELSE Loaded(from)

\* psc-gh: --pem-path ?? UNLIMITING_SENA_PRIVATE_KEY_PATH ?? DEFAULT_PEM_PATH,
\* readFile, then signJwt with the key.
readPrivateKey(c) ==
  LET from == IF c.explicit # "absent" THEN "explicit"
              ELSE IF c.envPath # "absent" THEN "envPath"
              ELSE "std"
  IN IF c[from] \in {"nofile", "absent"}
     THEN NotLoaded(PlainError(<<"ENOENT: no such file or directory">>))
     ELSE IF c[from] # "valid"
          THEN NotLoaded(PlainError(<<"error:1E08010C:DECODER routines::unsupported">>))
          ELSE Loaded(from)

(* ---------------------------------------------------------------------- *)
(* Release options                                                         *)
(* ---------------------------------------------------------------------- *)

\* A parsed release-notes JSON file: an array of {language, text} entries,
\* or an object given by its entries (key, value) in Object.entries order.
NotesArray(items) == [kind |-> "array", items |-> items]
NotesObject(items) == [kind |-> "object", items |-> items]
NoNotesFile == [kind |-> "undef", items |-> <<>>]
Note(language, text) == [language |-> language, text |-> text]

\* The --release-notes-file inputs of the main specification.
NotesFiles ==
  { NoNotesFile, NotesObject(<<>>), NotesArray(<<Note("en-US", "Bug fixes")>>) }

Parsed(value) == [ok |-> TRUE, value |-> value, error |-> NoError]
Rejected(value, error) == [ok |-> FALSE, value |-> value, error |-> error]

parseUserFraction(raw) ==
  IF raw = Undef THEN Parsed(NoNum)
  ELSE LET value == ToNumber(raw)
       IN IF value.t # "num" \/ value.v <= 0 \/ value.v >= 10
          THEN Rejected(NoNum, CliError("--user-fraction must be between 0 and 1"))
          ELSE Parsed(value)

parseInAppUpdatePriority(raw) ==
  IF raw = Undef THEN Parsed(NoNum)
  ELSE LET value == ToNumber(raw)
       IN IF value.t # "num" \/ value.v % 10 # 0 \/ value.v < 0 \/ value.v > 50
          THEN Rejected(NoNum, CliError("--in-app-update-priority must be an integer 0..5"))
          ELSE Parsed(value)

\* The releaseNotes value of a release: undefined, or a list of notes.
NoNotes == [present |-> FALSE, items |-> <<>>]
Notes(items) == [present |-> TRUE, items |-> items]

\* JSON null, and the values `!value` is true of.
Null == "(null)"
Falsy == {Undef, Null, ""}

\* JavaScript String(value) of a JSON string or null.
String(value) == IF value = Null THEN "null" ELSE value

loadReleaseNotes(file) ==
  IF file.kind = "undef" THEN Parsed(NoNotes)
  ELSE IF file.kind = "array"
       THEN IF \E i \in DOMAIN file.items :
                 file.items[i].language \in Falsy \/ file.items[i].text \in Falsy
            THEN Rejected(NoNotes, CliError("release notes array items need language and text"))
            ELSE Parsed(Notes(file.items))
       ELSE IF file.kind = "object"
            THEN IF Len(file.items) = 0
                 THEN Rejected(NoNotes, CliError("release notes object is empty"))
                 ELSE Parsed(Notes([i \in DOMAIN file.items |->
                                      Note(file.items[i].language,
                                           String(file.items[i].text))]))
            ELSE Rejected(NoNotes, CliError("release notes must be an array or an object"))

AllowedStatuses == {"draft", "inProgress", "halted", "completed"}

Release(status, versionCodes, userFraction, priority, notes) ==
  [status |-> status, versionCodes |-> versionCodes, userFraction |-> userFraction,
   inAppUpdatePriority |-> priority, releaseNotes |-> notes]

NoRelease == Release(Undef, <<>>, NoNum, NoNum, NoNotes)

\* part_002: the checks run in this order and the first failing one throws.
buildReleaseFromOptions(options, versionCodes) ==
  LET status == IF options.status = Undef THEN "completed" ELSE options.status
      userFraction == parseUserFraction(options.userFraction)
      updatePriority == parseInAppUpdatePriority(options.inAppUpdatePriority)
      releaseNotes == loadReleaseNotes(options.releaseNotesFile)
  IN IF status \notin AllowedStatuses
     THEN Rejected(NoRelease, CliError("invalid release status"))
     ELSE IF ~userFraction.ok THEN Rejected(NoRelease, userFraction.error)
     ELSE IF status = "inProgress" /\ userFraction.value = NoNum
          THEN Rejected(NoRelease, CliError("status inProgress needs --user-fraction"))
     ELSE IF ~updatePriority.ok THEN Rejected(NoRelease, updatePriority.error)
     ELSE IF ~releaseNotes.ok THEN Rejected(NoRelease, releaseNotes.error)
     ELSE Parsed(Release(status, versionCodes, userFraction.value,
                         updatePriority.value, releaseNotes.value))

\* part_003: main reads the options without checking them and tracksUpdate
\* builds the release from whatever it is given.
tracksUpdateRelease(options, versionCodes) ==
  Release(IF options.status = Undef THEN "completed" ELSE options.status,
          versionCodes,
          IF options.userFraction \in {Undef, ""} THEN NoNum
          ELSE ToNumber(options.userFraction),
          IF options.inAppUpdatePriority \in {Undef, ""} THEN NoNum
          ELSE ToNumber(options.inAppUpdatePriority),
          IF options.releaseNotes \in {Undef, ""} THEN NoNotes
          ELSE Notes(<<Note("ko-KR", options.releaseNotes)>>))

\* The release options of one invocation.
Options(status, userFraction, priority, notesFile, notesText) ==
  [status |-> status, userFraction |-> userFraction, inAppUpdatePriority |-> priority,
   releaseNotesFile |-> notesFile, releaseNotes |-> notesText]

DefaultOptions == Options(Undef, Undef, Undef, NoNotesFile, Undef)

(* ---------------------------------------------------------------------- *)
(* Version codes                                                           *)
(* ---------------------------------------------------------------------- *)

\* A --version-code value is given as its comma-separated, trimmed items.
NumericItems == {"12", "7"}
\* The items /^\d+$/ matches: the positive codes and "0".
DigitItems == NumericItems \cup {"0"}
VersionItems == DigitItems \cup {"x", ""}

RECURSIVE Flatten(_)
Flatten(values) ==
  IF values = <<>> THEN <<>> ELSE Head(values) \o Flatten(Tail(values))

RECURSIVE Unique(_)
\* [...new Set(list)]: first occurrences, in order
Unique(list) ==
  IF list = <<>> THEN <<>>
  ELSE LET init == Unique(SubSeq(list, 1, Len(list) - 1))
           last == list[Len(list)]
       IN IF last \in Range(init) THEN init ELSE Append(init, last)

\* part_002
parseVersionCodes(rawValues) ==
  LET items == SelectSeq(Flatten(rawValues), LAMBDA item : item # "")
  IN IF \E i \in DOMAIN items : items[i] \notin DigitItems
     THEN Rejected(<<>>, CliError("invalid versionCode"))
     ELSE IF Len(items) = 0
          THEN Rejected(<<>>, CliError("at least one --version-code is required"))
          ELSE Parsed(Unique(items))

\* part_003: parseArgs keeps the value of the last --version-codes flag;
\* required(options, 'version-codes') and parseVersionCodes
liteVersionCodes(rawValues) ==
  IF rawValues = <<>> \/ rawValues[Len(rawValues)] = <<"">>
  THEN Rejected(<<>>, PlainError(<<"missing required option: --version-codes">>))
  ELSE Parsed(SelectSeq(rawValues[Len(rawValues)], LAMBDA item : item # ""))

\* The --version-code inputs of the main specification.
VersionCodeArgs == { <<>>, <<<<"12">>>>, <<<<"12", "x">>>>, <<<<"7", "12">>, <<"7">>>> }

(* ---------------------------------------------------------------------- *)
(* One invocation                                                          *)
(* ---------------------------------------------------------------------- *)

VARIABLES
  impl,      \* which program runs
  cmd,       \* the command of the invocation
  cred,      \* the credential sources of the environment
  options,   \* the release options
  args,      \* the other arguments: package name, aab file, version codes
  pc,        \* the await the program is suspended at, or "done" / "failed"
  calls,     \* the requests issued so far, each with its outcome
  ctx,       \* the local constants of main / of the action handler
  stdout,    \* console.log lines
  stderr,    \* console.error lines
  exitCode   \* exit code of the process, Running while it runs

inputs == <<impl, cmd, cred, options, args>>
vars == <<impl, cmd, cred, options, args, pc, calls, ctx, stdout, stderr, exitCode>>

Running == 0 - 1

PscCommands ==
  {"auth token", "auth status", "edits create", "edits validate", "edits commit",
   "bundles upload", "tracks get", "tracks update", "publish submit"}
LiteCommands == PscCommands \cup {"help", "unsupported"}
GhCommands == {"help", "token-only", "run", "noargs"}

\* The commands that read the release options.
ReleaseCommands == {"tracks update", "publish submit"}
\* The commands that read --aab.
AabCommands == {"bundles upload", "publish submit"}

\* --edit-id of the stand-alone commands
EditIdArg == "E9"

Args(package, aab, versionCode, review, packageJson) ==
  [package |-> package, aab |-> aab, versionCode |-> versionCode, review |-> review,
   packageJson |-> packageJson]

\* part_002 readPackageVersion: ../package.json is read, or cannot be read
PackageJsons == {"readable", "unreadable"}
readPackageVersion(packageJson) ==
  IF packageJson = "unreadable" THEN "0.1.0" ELSE "package.json version"

\* --changes-not-sent-for-review: absent, or a value boolOpt rejects
ReviewArgs == {Undef, "maybe"}

Call(op, editId, token, release) ==
  [op |-> op, editId |-> editId, token |-> token, release |-> release,
   result |-> "pending", status |-> Undef, body |-> Undef]

\* The requests of the Remote Resource Client.
editsCreate(accessToken) == Call("createEdit", Undef, accessToken, NoRelease)
\* The upload goes to the edit of --edit-id, not to the edit it is given.
bundlesUploadOtherEdit(editId, accessToken) ==
  Call("uploadBundle", EditIdArg, accessToken, NoRelease)
bundlesUpload(editId, accessToken) == Call("uploadBundle", editId, accessToken, NoRelease)
tracksGet(editId, accessToken) == Call("getTrack", editId, accessToken, NoRelease)
tracksUpdate(editId, release, accessToken) == Call("updateTrack", editId, accessToken, release)
\* The validate request goes to the :commit URL.
editsValidateAsCommit(editId, accessToken) == Call("commitEdit", editId, accessToken, NoRelease)
editsValidate(editId, accessToken) == Call("validateEdit", editId, accessToken, NoRelease)
\* The commit request is built without the bearer token.
editsCommitNoBearer(editId, accessToken) == Call("commitEdit", editId, NoToken, NoRelease)
editsCommit(editId, accessToken) == Call("commitEdit", editId, accessToken, NoRelease)

Context ==
  [accessToken |-> NoToken, editId |-> Undef, versionCode |-> Undef,
   release |-> NoRelease, commitId |-> Undef, source |-> "none", spawned |-> 0,
   version |-> Undef, ghCode |-> Undef]

Line(key, val) == [key |-> key, val |-> val, tok |-> <<>>]
TokenLine(key, tok) == [key |-> key, val |-> "", tok |-> tok]

Init ==
  /\ impl \in {"psc", "lite", "gh"}
  /\ cmd \in (CASE impl = "psc" -> PscCommands
                [] impl = "lite" -> LiteCommands
                [] OTHER -> GhCommands)
  /\ cred \in CredEnvs
  /\ options \in
       IF cmd \in ReleaseCommands /\ impl = "psc"
       THEN {Options(st, uf, pr, nf, Undef) :
               st \in RawStatuses, uf \in RawFractions, pr \in RawPriorities,
               nf \in NotesFiles}
       ELSE IF cmd \in ReleaseCommands /\ impl = "lite"
            THEN {Options(st, uf, pr, NoNotesFile, nt) :
                    st \in RawStatuses, uf \in RawFractions, pr \in RawPriorities,
                    nt \in {Undef, "Bug fixes"}}
            ELSE {DefaultOptions}
  /\ args \in
       {Args(pk, ab, vc, rv, pj) :
          pk \in IF impl = "gh" \/ cmd \in {"auth token", "help", "unsupported"}
                 THEN {TRUE} ELSE BOOLEAN,
          ab \in IF impl # "gh" /\ cmd \in AabCommands THEN {"file", "nofile"} ELSE {"file"},
          vc \in IF impl # "gh" /\ cmd = "tracks update" THEN VersionCodeArgs ELSE {<<>>},
          rv \in IF impl = "lite" /\ cmd \in {"edits commit", "publish submit"}
                 THEN ReviewArgs ELSE {Undef},
          pj \in IF impl = "psc" THEN PackageJsons ELSE {"readable"}}
  /\ pc = "start"
  /\ calls = <<>>
  /\ ctx = Context
  /\ stdout = <<>>
  /\ stderr = <<>>
  /\ exitCode = Running

\* The request is not awaited: the program goes on while it is pending.
SettledNotAwaited(result) == calls

\* The outcome of the pending request is recorded with the request.
Settled(result) ==
  IF calls = <<>> THEN calls
  ELSE [calls EXCEPT ![Len(calls)].result = result]

\* The pending request is answered with a non-2xx response.
Refused(status, body) ==
  [calls EXCEPT ![Len(calls)].result = "failed", ![Len(calls)].status = status,
                ![Len(calls)].body = body]

\* main().catch / main's catch: what the error boundary prints
report(error) ==
  CASE impl = "psc" -> << <<"Error: ">> \o normalizeGoogleApiError(error).message >>
    [] impl = "lite" -> << <<"[psc] failed">>, error.message >>
    [] OTHER -> << <<"[psc-gh] failed">>, error.message >>

\* part_003 print(): JSON.stringify(value, null, 2) leaves out undefined members
member(key, value) == IF value = Undef THEN <<>> ELSE <<Line(key, value)>>
print(members) == <<Line("{", "")>> \o members \o <<Line("}", "")>>

\* The boundary reports the error and the process ends with exit code 0.
ThrowExitsZero(error, callsNew, ctxNew, lines) ==
  /\ pc' = "failed"
  /\ calls' = callsNew
  /\ ctx' = ctxNew
  /\ stdout' = stdout \o lines
  /\ stderr' = stderr \o report(error)
  /\ exitCode' = 0
  /\ UNCHANGED inputs

\* The three ways a step of the program ends.
Throw(error, callsNew, ctxNew, lines) ==
  /\ pc' = "failed"
  /\ calls' = callsNew
  /\ ctx' = ctxNew
  /\ stdout' = stdout \o lines
  /\ stderr' = stderr \o report(error)
  /\ exitCode' = 1
  /\ UNCHANGED inputs

Return(callsNew, ctxNew, lines) ==
  /\ pc' = "done"
  /\ calls' = callsNew
  /\ ctx' = ctxNew
  /\ stdout' = stdout \o lines
  /\ stderr' = stderr
  /\ exitCode' = 0
  /\ UNCHANGED inputs

Await(at, call, callsNew, ctxNew, lines) ==
  /\ pc' = at
  /\ calls' = Append(callsNew, call)
  /\ ctx' = ctxNew
  /\ stdout' = stdout \o lines
  /\ stderr' = stderr
  /\ exitCode' = Running
  /\ UNCHANGED inputs

\* The error a failed API request rejects with.
requestError(status, body) ==
  IF impl = "psc" THEN ApiError(status, apiMessageOf(body))
  ELSE jsonRequestError(status, body)

\* A rejected request is sent a second time before the error is raised.
RejectsRetryOnce(at) ==
  /\ pc = at
  /\ \E status \in HttpErrors, body \in ErrorBodies :
       IF Len(calls) >= 2 /\ calls[Len(calls) - 1].op = calls[Len(calls)].op
       THEN Throw(requestError(status, body), Refused(status, body), ctx, <<>>)
       ELSE Await(at, [calls[Len(calls)] EXCEPT !.result = "pending"],
                  Refused(status, body), ctx, <<>>)

\* The rejection is never handled: the program stays where it was suspended.
RejectsUnhandled(at) ==
  /\ pc = at
  /\ pc' = "hung"
  /\ calls' = Settled("failed")
  /\ UNCHANGED <<ctx, stdout, stderr, exitCode, inputs>>

\* The awaited API request rejects: the error reaches the error boundary.
Rejects(at) ==
  /\ pc = at
  /\ \E status \in HttpErrors, body \in ErrorBodies :
       Throw(requestError(status, body), Refused(status, body), ctx, <<>>)

(* main / createContext up to the token request *)
Start ==
  /\ pc = "start"
  /\ CASE impl = "psc" ->
            LET loaded == loadServiceAccountCredentials(cred)
                versioned == [ctx EXCEPT !.version = readPackageVersion(args.packageJson)]
            IN IF ~loaded.ok THEN Throw(loaded.error, calls, versioned, <<>>)
               ELSE Await("awaitToken", Call("tokenExchange", Undef, NoToken, NoRelease),
                          calls, [versioned EXCEPT !.source = loaded.source], <<>>)
       [] impl = "lite" ->
            LET loaded == readServiceAccount(cred)
            IN IF cmd = "help" THEN Return(calls, ctx, <<Line("help", "usage")>>)
               ELSE IF ~loaded.ok THEN Throw(loaded.error, calls, ctx, <<>>)
               ELSE Await("awaitToken", Call("tokenExchange", Undef, NoToken, NoRelease),
                          calls, [ctx EXCEPT !.source = loaded.source], <<>>)
       [] OTHER ->
            LET loaded == readPrivateKey(cred)
            IN IF cmd = "help" THEN Return(calls, ctx, <<Line("help", "usage")>>)
               ELSE IF ~loaded.ok THEN Throw(loaded.error, calls, ctx, <<>>)
               ELSE Await("awaitInstallationToken",
                          Call("installationToken", Undef, NoToken, NoRelease),
                          calls, [ctx EXCEPT !.source = loaded.source], <<>>)

\* part_002, auth token / auth status after getAccessToken(auth) gave `token`
pscAuthOutput(token, callsNew, ctxNew) ==
  LET head == <<Line("serviceAccount", "client_email"),
                Line("credentialsSource", ctxNew.source)>>
      masked == TokenLine("accessToken", maskValue(token, 10, 6))
  IN IF cmd = "auth token"
     THEN IF token = NoToken
          THEN Throw(CliError("access token was not issued"), callsNew, ctxNew, <<>>)
          ELSE Return(callsNew, ctxNew,
                      head \o <<masked, Line("expiresAt", "expiry_date")>>)
     ELSE LET lines ==
                head \o <<Line("tokenIssued", IF token # NoToken THEN "yes" ELSE "no")>>
                     \o (IF token # NoToken THEN <<masked>> ELSE <<>>)
                     \o <<Line("expiresAt", "expiry_date")>>
          IN IF ~args.package
             THEN Return(callsNew, ctxNew, lines \o <<Line("packageAccess", "skipped")>>)
             ELSE Await("awaitCreate",
                        editsCreate(ctxNew.accessToken),
                        callsNew, ctxNew, lines)

\* part_002: the rest of createContext and the action handler of the command,
\* up to its first API request
pscAction(callsNew, ctxNew) ==
  LET token == ctxNew.accessToken
      versionCodes == parseVersionCodes(args.versionCode)
      release == buildReleaseFromOptions(options, versionCodes.value)
  IN CASE cmd \in {"auth token", "auth status"} ->
            IF token # NoToken THEN pscAuthOutput(token, callsNew, ctxNew)
            ELSE Await("awaitAccessToken",
                       Call("tokenExchange", Undef, NoToken, NoRelease),
                       callsNew, ctxNew, <<>>)
       [] ~args.package /\ cmd \notin {"auth token", "auth status"} ->
            Throw(CliError("package name not found"), callsNew, ctxNew, <<>>)
       [] args.package /\ cmd = "edits create" ->
            Await("awaitCreate", editsCreate(token),
                  callsNew, ctxNew, <<>>)
       [] args.package /\ cmd = "edits validate" ->
            Await("awaitValidate", editsValidate(EditIdArg, token),
                  callsNew, ctxNew, <<>>)
       [] args.package /\ cmd = "edits commit" ->
            Await("awaitCommit", editsCommit(EditIdArg, token),
                  callsNew, ctxNew, <<>>)
       [] args.package /\ cmd = "bundles upload" ->
            IF args.aab # "file"
            THEN Throw(CliError("AAB file does not exist"), callsNew, ctxNew, <<>>)
            ELSE Await("awaitUpload", bundlesUpload(EditIdArg, token),
                       callsNew, ctxNew, <<>>)
       [] args.package /\ cmd = "tracks get" ->
            Await("awaitTrackGet", tracksGet(EditIdArg, token),
                  callsNew, ctxNew, <<>>)
       [] args.package /\ cmd = "tracks update" ->
            IF ~versionCodes.ok THEN Throw(versionCodes.error, callsNew, ctxNew, <<>>)
            ELSE IF ~release.ok THEN Throw(release.error, callsNew, ctxNew, <<>>)
            ELSE Await("awaitTrackUpdate",
                       tracksUpdate(EditIdArg, release.value, token),
                       callsNew, [ctxNew EXCEPT !.release = release.value], <<>>)
       [] args.package /\ cmd = "publish submit" ->
            IF args.aab # "file"
            THEN Throw(CliError("AAB file does not exist"), callsNew, ctxNew, <<>>)
            ELSE Await("awaitCreate", editsCreate(token),
                       callsNew, ctxNew, <<>>)

\* part_003: main after the access token check, up to the first API request
liteMain(callsNew, ctxNew) ==
  LET token == ctxNew.accessToken
      missing(key) == PlainError(<<"missing required option: --", key>>)
      versionCodes == liteVersionCodes(args.versionCode)
      release == tracksUpdateRelease(options, versionCodes.value)
      badReview == PlainError(<<"boolean parse failed: ", args.review>>)
  IN CASE cmd = "auth token" ->
            Return(callsNew, ctxNew,
                   print(<<Line("tokenType", "token_type"), Line("expiresIn", "expires_in"),
                           TokenLine("accessToken", liteTokenPreview(token))>>))
       [] cmd = "unsupported" ->
            Throw(PlainError(<<"unsupported command: ">>), callsNew, ctxNew, <<>>)
       [] cmd \notin {"auth token", "unsupported"} /\ ~args.package ->
            Throw(missing("package-name"), callsNew, ctxNew, <<>>)
       [] args.package /\ cmd \in {"auth status", "edits create"} ->
            Await("awaitCreate", editsCreate(token),
                  callsNew, ctxNew, <<>>)
       [] args.package /\ cmd = "edits validate" ->
            Await("awaitValidate", editsValidate(EditIdArg, token),
                  callsNew, ctxNew, <<>>)
       [] args.package /\ cmd = "edits commit" ->
            IF args.review # Undef THEN Throw(badReview, callsNew, ctxNew, <<>>)
            ELSE Await("awaitCommit", editsCommit(EditIdArg, token),
                       callsNew, ctxNew, <<>>)
       [] args.package /\ cmd = "bundles upload" ->
            IF args.aab # "file"
            THEN Throw(PlainError(<<"ENOENT: no such file or directory">>),
                       callsNew, ctxNew, <<>>)
            ELSE Await("awaitUpload", bundlesUpload(EditIdArg, token),
                       callsNew, ctxNew, <<>>)
       [] args.package /\ cmd = "tracks get" ->
            Await("awaitTrackGet", tracksGet(EditIdArg, token),
                  callsNew, ctxNew, <<>>)
       [] args.package /\ cmd = "tracks update" ->
            IF ~versionCodes.ok THEN Throw(versionCodes.error, callsNew, ctxNew, <<>>)
            ELSE Await("awaitTrackUpdate",
                       tracksUpdate(EditIdArg, release, token),
                       callsNew, [ctxNew EXCEPT !.release = release], <<>>)
       [] args.package /\ cmd = "publish submit" ->
            IF args.review # Undef THEN Throw(badReview, callsNew, ctxNew, <<>>)
            ELSE Await("awaitCreate", editsCreate(token),
                       callsNew, ctxNew, <<>>)

(* auth.authorize() / exchangeAccessToken returns *)
TokenExchangeReturns ==
  /\ pc = "awaitToken"
  /\ \/ \E status \in HttpErrors, body \in ErrorBodies :
          Throw(IF impl = "psc" THEN ApiError(status, Undef)
                ELSE exchangeError(status, body),
                Refused(status, body), ctx, <<>>)
     \/ \E token \in Tokens \cup {NoToken} :
          LET ctxNew == [ctx EXCEPT !.accessToken = token]
          IN IF impl = "psc" THEN pscAction(Settled("ok"), ctxNew)
             ELSE IF token = NoToken
                  THEN Throw(PlainError(<<"could not obtain access token">>),
                             Settled("ok"), ctxNew, <<>>)
                  ELSE liteMain(Settled("ok"), ctxNew)

(* part_002 getAccessToken: auth.getAccessToken() returns *)
GetAccessTokenReturns ==
  /\ pc = "awaitAccessToken"
  /\ \/ \E status \in HttpErrors, body \in ErrorBodies :
          Throw(ApiError(status, Undef), Refused(status, body), ctx, <<>>)
     \/ \E token \in Tokens \cup {NoToken} :
          pscAuthOutput(token, Settled("ok"), [ctx EXCEPT !.accessToken = token])

\* `value || '(none)'`
orNone(value) == IF value \in {Undef, ""} THEN "(none)" ELSE value


\* The upload is started without looking at the id of the new edit.
submitCreatedUnchecked(id, callsNew, ctxNew) ==
  IF impl = "lite" /\ args.aab # "file"
  THEN Throw(PlainError(<<"ENOENT: no such file or directory">>), callsNew, ctxNew, <<>>)
  ELSE Await("awaitUpload", bundlesUpload(id, ctxNew.accessToken), callsNew, ctxNew, <<>>)

\* publish submit: createEdit answered with `id`
submitCreated(id, callsNew, ctxNew) ==
  IF id = Undef
  THEN Throw(IF impl = "psc" THEN CliError("edit create failed: no editId")
             ELSE PlainError(<<"edit create failed: missing editId">>),
             callsNew, ctxNew, <<>>)
  ELSE IF impl = "lite" /\ args.aab # "file"
       THEN Throw(PlainError(<<"ENOENT: no such file or directory">>),
                  callsNew, ctxNew, <<>>)
       ELSE Await("awaitUpload", bundlesUpload(id, ctxNew.accessToken),
                  callsNew, ctxNew, <<>>)

(* edits.insert / editsCreate returns *)
CreateEditReturns ==
  \/ Rejects("awaitCreate")
  \/ /\ pc = "awaitCreate"
     /\ \E id \in EditIds \cup {Undef} :
          LET ctxNew == [ctx EXCEPT !.editId = id]
          IN CASE cmd = "publish submit" -> submitCreated(id, Settled("ok"), ctxNew)
               [] cmd = "edits create" /\ impl = "psc" ->
                    Return(Settled("ok"), ctxNew,
                           <<Line("packageName", "package"), Line("editId", orNone(id)),
                             Line("expiryTimeSeconds", "expiry")>>)
               [] cmd = "edits create" /\ impl = "lite" ->
                    Return(Settled("ok"), ctxNew,
                           print(member("id", id) \o <<Line("expiryTimeSeconds", "expiry")>>))
               [] cmd = "auth status" /\ impl = "psc" ->
                    Return(Settled("ok"), ctxNew,
                           <<Line("packageAccess", "ok"), Line("packageName", "package"),
                             Line("probeEditId", orNone(id)),
                             Line("probeEditExpiry", "expiry"),
                             Line("note", "probe edit not committed")>>)
               [] cmd = "auth status" /\ impl = "lite" ->
                    Return(Settled("ok"), ctxNew,
                           print(<<Line("ok", "true"), Line("packageName", "package")>>
                                   \o member("editId", id) \o <<Line("auth", "valid")>>))

\* publish submit: uploadBundle answered with `versionCode`
submitUploaded(versionCode, callsNew, ctxNew) ==
  LET built == buildReleaseFromOptions(options, <<versionCode>>)
      release == IF impl = "psc" THEN built.value
                 ELSE tracksUpdateRelease(options, <<versionCode>>)
  IN IF versionCode = Undef
     THEN Throw(IF impl = "psc" THEN CliError("AAB upload response has no versionCode")
                ELSE PlainError(<<"bundle upload failed: missing versionCode">>),
                callsNew, ctxNew, <<>>)
     ELSE IF impl = "psc" /\ ~built.ok
          THEN Throw(built.error, callsNew, ctxNew, <<>>)
          ELSE Await("awaitTrackUpdate",
                     tracksUpdate(ctxNew.editId, release, ctxNew.accessToken),
                     callsNew, [ctxNew EXCEPT !.release = release], <<>>)

(* edits.bundles.upload / bundlesUpload returns *)
UploadBundleReturns ==
  \/ Rejects("awaitUpload")
  \/ /\ pc = "awaitUpload"
     /\ \E versionCode \in VersionCodes \cup {Undef} :
          LET ctxNew == [ctx EXCEPT !.versionCode = versionCode]
          IN CASE cmd = "publish submit" ->
                    submitUploaded(versionCode, Settled("ok"), ctxNew)
               [] cmd = "bundles upload" /\ impl = "psc" ->
                    Return(Settled("ok"), ctxNew,
                           <<Line("packageName", "package"), Line("editId", EditIdArg),
                             Line("aabPath", "aab"),
                             Line("versionCode", orNone(versionCode))>>)
               [] cmd = "bundles upload" /\ impl = "lite" ->
                    Return(Settled("ok"), ctxNew, print(member("versionCode", versionCode)))

(* edits.tracks.get / tracksGet returns *)
GetTrackReturns ==
  \/ Rejects("awaitTrackGet")
  \/ /\ pc = "awaitTrackGet"
     /\ Return(Settled("ok"), ctx,
               IF impl = "psc" THEN <<Line("track", "internal")>>
               ELSE print(<<Line("track", "internal")>>))

(* edits.tracks.update / tracksUpdate returns *)
UpdateTrackReturns ==
  \/ Rejects("awaitTrackUpdate")
  \/ /\ pc = "awaitTrackUpdate"
     /\ IF cmd = "publish submit"
        THEN Await("awaitValidate",
                   editsValidate(ctx.editId, ctx.accessToken),
                   Settled("ok"), ctx, <<>>)
        ELSE Return(Settled("ok"), ctx,
                    IF impl = "psc" THEN <<Line("track", "internal")>>
                    ELSE print(<<Line("track", "internal")>>))

(* edits.validate / editsValidate returns *)
ValidateEditReturns ==
  \/ Rejects("awaitValidate")
  \/ /\ pc = "awaitValidate"
     /\ IF cmd = "publish submit"
        THEN Await("awaitCommit",
                   editsCommit(ctx.editId, ctx.accessToken),
                   Settled("ok"), ctx, <<>>)
        ELSE IF impl = "psc"
             THEN Return(Settled("ok"), ctx,
                         <<Line("packageName", "package"), Line("editId", EditIdArg),
                           Line("validated", "yes")>>)
             ELSE Return(Settled("ok"), ctx, print(<<>>))

\* committedEditId is `editId || commitResponse.data.id`.
pscSubmitOutputCreatedFirst(c, commitId) ==
  <<Line("packageName", "package"), Line("editId", c.editId), Line("aabPath", "aab"),
    Line("uploadedVersionCode", c.versionCode), Line("track", "internal"),
    Line("releaseStatus", c.release.status), Line("validated", "yes"),
    Line("committed", "yes"),
    Line("committedEditId", IF c.editId \in {Undef, ""} THEN commitId ELSE c.editId),
    Line("trackReleases", "1")>>

\* part_002, publish submit: the lines printed after the commit
pscSubmitOutput(c, commitId) ==
  <<Line("packageName", "package"), Line("editId", c.editId), Line("aabPath", "aab"),
    Line("uploadedVersionCode", c.versionCode), Line("track", "internal"),
    Line("releaseStatus", c.release.status), Line("validated", "yes"),
    Line("committed", "yes"),
    Line("committedEditId", IF commitId \in {Undef, ""} THEN c.editId ELSE commitId),
    Line("trackReleases", "1")>>

\* part_003, publish submit: print({editId, upload, track, validate, commit})
liteSubmitOutput(c, commitId) ==
  print(<<Line("editId", c.editId), Line("upload.versionCode", c.versionCode),
          Line("track.track", "internal")>> \o member("commit.id", commitId))

(* edits.commit / editsCommit returns *)
CommitEditReturns ==
  \/ Rejects("awaitCommit")
  \/ /\ pc = "awaitCommit"
     /\ \E id \in EditIds \cup {Undef} :
          LET ctxNew == [ctx EXCEPT !.commitId = id]
          IN CASE cmd = "publish submit" /\ impl = "psc" ->
                    Return(Settled("ok"), ctxNew, pscSubmitOutput(ctx, id))
               [] cmd = "publish submit" /\ impl = "lite" ->
                    Return(Settled("ok"), ctxNew, liteSubmitOutput(ctx, id))
               [] cmd = "edits commit" /\ impl = "psc" ->
                    Return(Settled("ok"), ctxNew,
                           <<Line("packageName", "package"),
                             Line("editId", IF id \in {Undef, ""} THEN EditIdArg ELSE id),
                             Line("committed", "yes")>>)
               [] cmd = "edits commit" /\ impl = "lite" ->
                    Return(Settled("ok"), ctxNew, print(member("id", id)))

(* psc-gh: issueInstallationToken returns, main runs up to the spawn *)
InstallationTokenReturns ==
  /\ pc = "awaitInstallationToken"
  /\ \/ \E status \in HttpErrors, body \in ErrorBodies :
          Throw(issueError(status, body), Refused(status, body), ctx, <<>>)
     \/ \E token \in Tokens \cup {NoToken} :
          LET ctxNew == [ctx EXCEPT !.accessToken = token]
          IN IF token = NoToken
             THEN Throw(PlainError(<<"token response is abnormal: ", "{}">>),
                        Settled("ok"), ctxNew, <<>>)
             ELSE CASE cmd = "token-only" ->
                         Return(Settled("ok"), ctxNew,
                                <<Line("appId", "app"), Line("installationId", "inst"),
                                  TokenLine("token", maskToken(token)),
                                  Line("expiresAt", "expires_at")>>)
                    [] cmd = "noargs" ->
                         /\ pc' = "failed"
                         /\ calls' = Settled("ok")
                         /\ ctx' = ctxNew
                         /\ stdout' = Append(stdout, Line("help", "usage"))
                         /\ stderr' = Append(stderr, <<"no gh arguments to run">>)
                         /\ exitCode' = 1
                         /\ UNCHANGED inputs
                    [] cmd = "run" ->
                         /\ pc' = "awaitGh"
                         /\ calls' = Settled("ok")
                         /\ ctx' = [ctxNew EXCEPT !.spawned = @ + 1]
                         /\ UNCHANGED <<stdout, stderr, exitCode, inputs>>

\* The exit codes of the gh child process.
GhCodes == {"0", "1", "127"}

\* The promise resolves whatever code the child closes with.
GhExitsAnyCode ==
  /\ pc = "awaitGh"
  /\ \/ \E code \in GhCodes : Return(calls, [ctx EXCEPT !.ghCode = code], <<>>)
     \/ Throw(PlainError(<<"spawn gh ENOENT">>), calls, ctx, <<>>)

(* psc-gh runGhWithToken: the child closes, or fails to start *)
GhExits ==
  /\ pc = "awaitGh"
  /\ \/ \E code \in GhCodes :
          IF code = "0" THEN Return(calls, [ctx EXCEPT !.ghCode = code], <<>>)
          ELSE Throw(PlainError(<<"gh exited with code ", code>>), calls,
                     [ctx EXCEPT !.ghCode = code], <<>>)
     \/ Throw(PlainError(<<"spawn gh ENOENT">>), calls, ctx, <<>>)

Next ==
  \/ Start
  \/ TokenExchangeReturns
  \/ GetAccessTokenReturns
  \/ CreateEditReturns
  \/ UploadBundleReturns
  \/ GetTrackReturns
  \/ UpdateTrackReturns
  \/ ValidateEditReturns
  \/ CommitEditReturns
  \/ InstallationTokenReturns
  \/ GhExits

Spec == Init /\ [][Next]_vars

TypeOK ==
  /\ pc \in {"start", "awaitToken", "awaitAccessToken", "awaitCreate", "awaitUpload",
             "awaitTrackGet", "awaitTrackUpdate", "awaitValidate", "awaitCommit",
             "awaitInstallationToken", "awaitGh", "done", "failed"}
  /\ exitCode \in {Running, 0, 1}

(* ---------------------------------------------------------------------- *)
(* Properties of publish submit                                            *)
(* ---------------------------------------------------------------------- *)

FairSpec == Spec /\ WF_vars(Next)

IsSubmit == impl \in {"psc", "lite"} /\ cmd = "publish submit"

SubmitOrder == <<"createEdit", "uploadBundle", "updateTrack", "validateEdit", "commitEdit">>
ApiOps == Range(SubmitOrder) \cup {"getTrack"}

\* The Remote Resource Client calls issued so far, in order.
ApiCalls == SelectSeq(calls, LAMBDA c : c.op \in ApiOps)

LastCall == calls[Len(calls)]

\* The state of the orchestrator: Failed once the error boundary ran,
\* otherwise given by the number of calls that returned successfully.
SubmitStates ==
  <<"Idle", "EditCreated", "BundleUploaded", "TrackUpdated", "Validated", "Committed">>
SubmitState ==
  IF pc = "failed" THEN "Failed"
  ELSE LET ok == Cardinality({i \in DOMAIN calls :
                                calls[i].op \in Range(SubmitOrder) /\ calls[i].result = "ok"})
       IN SubmitStates[IF ok > 5 THEN 6 ELSE ok + 1]

\* C1: in a publish submit invocation the Remote Resource Client calls are
\* createEdit, uploadBundle, updateTrack, validateEdit, commitEdit in this
\* order, each at most once, each issued only after all earlier ones returned
\* successfully, and a finished run has issued all five.
C1_SubmitCallOrder ==
  IsSubmit =>
    /\ Len(ApiCalls) <= Len(SubmitOrder)
    /\ \A i \in DOMAIN ApiCalls :
         /\ ApiCalls[i].op = SubmitOrder[i]
         /\ i < Len(ApiCalls) => ApiCalls[i].result = "ok"
    /\ pc = "done" => Len(ApiCalls) = Len(SubmitOrder) /\ LastCall.result = "ok"

C1_Witness == IsSubmit /\ pc = "done" /\ Len(ApiCalls) = 5 /\ exitCode = 0

\* C2: in publish submit a failed call is the last call of the invocation and
\* ends it in Failed; no call is sent twice and nothing but the token
\* exchange and the five calls of the sequence is ever sent.
C2_FailureAborts ==
  IsSubmit =>
    /\ \A i \in DOMAIN calls :
         calls[i].result = "failed" =>
           i = Len(calls) /\ pc = "failed" /\ exitCode = 1 /\ SubmitState = "Failed"
    /\ \A i, j \in DOMAIN calls : i < j => calls[i].op # calls[j].op
    /\ \A i \in DOMAIN calls : calls[i].op \in Range(SubmitOrder) \cup {"tokenExchange"}

C2_Witness ==
  /\ IsSubmit /\ pc = "failed"
  /\ Len(ApiCalls) = 2
  /\ LastCall.op = "uploadBundle" /\ LastCall.result = "failed"

\* createEdit answered without an id / uploadBundle without a versionCode
MissingId ==
  \E i \in DOMAIN calls :
    calls[i].op = "createEdit" /\ calls[i].result = "ok" /\ ctx.editId = Undef
MissingVersionCode ==
  \E i \in DOMAIN calls :
    calls[i].op = "uploadBundle" /\ calls[i].result = "ok" /\ ctx.versionCode = Undef

\* C3 as stated: a createEdit response without id and an uploadBundle response
\* without versionCode end every invocation, publish submit and the
\* stand-alone commands alike, with a fatal error.
C3_MissingFieldFatalEverywhere ==
  (MissingId \/ MissingVersionCode) => pc = "failed" /\ exitCode = 1

\* C3 as amended: in publish submit the missing id / versionCode is fatal and
\* the call that returned it is the last call; every other command prints the
\* response and exits 0.
C3_MissingFieldFatalInSubmit ==
  (MissingId \/ MissingVersionCode) =>
    IF IsSubmit
    THEN /\ pc = "failed" /\ exitCode = 1 /\ stderr # <<>>
         /\ LastCall.op = (IF MissingId THEN "createEdit" ELSE "uploadBundle")
    ELSE pc = "done" /\ exitCode = 0 /\ stdout # <<>>

C3_Witness ==
  IsSubmit /\ MissingVersionCode /\ pc = "failed" /\ LastCall.op = "uploadBundle"

\* C4: a publish submit invocation sends createEdit at most once, every later
\* call of the sequence comes after the successful createEdit and carries the
\* id it returned, and no request other than the five calls is sent for the
\* edit (no delete).
C4_OneEditPerSubmit ==
  IsSubmit =>
    /\ Cardinality({i \in DOMAIN calls : calls[i].op = "createEdit"}) <= 1
    /\ \A i \in DOMAIN calls :
         calls[i].op \in Range(SubmitOrder) \ {"createEdit"} =>
           /\ \E j \in 1..(i - 1) : calls[j].op = "createEdit" /\ calls[j].result = "ok"
           /\ ctx.editId \in EditIds
           /\ calls[i].editId = ctx.editId
    /\ \A i \in DOMAIN ApiCalls : ApiCalls[i].op \in Range(SubmitOrder)

C4_Witness ==
  /\ IsSubmit /\ pc = "done" /\ ctx.editId = "E2"
  /\ \A i \in 2..5 : ApiCalls[i].editId = "E2"

\* C5: with every request eventually answered, a publish submit invocation
\* reaches Committed or Failed; nothing changes once it is there; and from
\* every state before that with a request pending (Idle, EditCreated,
\* BundleUploaded, TrackUpdated, Validated) one step leads to Failed.
SubmitTerminal == IsSubmit /\ SubmitState \in {"Committed", "Failed"}
FailStep == Next /\ pc' = "failed"
C5_SubmitTerminates ==
  /\ IsSubmit => <>SubmitTerminal
  /\ [][SubmitTerminal => UNCHANGED vars]_vars
  /\ [](IsSubmit /\ pc \notin {"start", "done", "failed"} => ENABLED FailStep)

C5_Witness ==
  /\ IsSubmit /\ SubmitState = "Failed"
  /\ Len(ApiCalls) = 5 /\ LastCall.op = "commitEdit" /\ LastCall.result = "failed"

(* ---------------------------------------------------------------------- *)
(* Validation, reports and output                                          *)
(* ---------------------------------------------------------------------- *)

\* The messages of the errors raised for invalid release options.
ValidationTexts ==
  { "invalid release status", "--user-fraction must be between 0 and 1",
    "status inProgress needs --user-fraction",
    "--in-app-update-priority must be an integer 0..5",
    "release notes array items need language and text",
    "release notes object is empty", "release notes must be an array or an object",
    "invalid versionCode", "at least one --version-code is required" }

\* The words of everything written to stderr.
Reported == UNION {Range(stderr[i]) : i \in DOMAIN stderr}

ReportsValidationError == pc = "failed" /\ Reported \cap ValidationTexts # {}

\* C6: when a ValidationError is reported, no request (token exchange,
\* createEdit, uploadBundle, updateTrack) has been issued by the invocation.
C6_ValidationBeforeNetwork ==
  ReportsValidationError => calls = <<>>

ValidRelease(r) ==
  /\ r.status \in AllowedStatuses
  /\ r.status = "inProgress" => r.userFraction # NoNum
  /\ r.userFraction # NoNum =>
       r.userFraction.t = "num" /\ r.userFraction.v > 0 /\ r.userFraction.v < 10
  /\ r.inAppUpdatePriority # NoNum =>
       /\ r.inAppUpdatePriority.t = "num" /\ r.inAppUpdatePriority.v % 10 = 0
       /\ r.inAppUpdatePriority.v >= 0 /\ r.inAppUpdatePriority.v <= 50

\* C7: every release submitted in an updateTrack request has an allowed
\* status, a userFraction when its status is inProgress, a userFraction
\* strictly between 0 and 1, and an integer update priority in 0..5.
C7_SubmittedReleaseValid ==
  \A i \in DOMAIN calls : calls[i].op = "updateTrack" => ValidRelease(calls[i].release)

\* The messages by which the program itself names the step that failed.
StepTexts(op) ==
  CASE op = "createEdit" ->
         {"createEdit", "edit create failed: no editId", "edit create failed: missing editId"}
    [] op = "uploadBundle" ->
         {"uploadBundle", "AAB upload response has no versionCode",
          "bundle upload failed: missing versionCode"}
    [] OTHER -> {op}

\* C8: when publish submit fails after the edit was created, what is reported
\* names the id of the created edit and the step that failed.
C8_FailureReportNamesEditAndStep ==
  IsSubmit /\ pc = "failed" /\ ctx.editId \in EditIds =>
    /\ ctx.editId \in Reported
    /\ Reported \cap StepTexts(LastCall.op) # {}

\* The edit id printed as the committed one.
FinalIdKeys == {"committedEditId", "commit.id"}
FinalEditIds == {stdout[i].val : i \in {k \in DOMAIN stdout : stdout[k].key \in FinalIdKeys}}

Contains(hay, needle) ==
  \E k \in 0..(Len(hay) - Len(needle)) : SubSeq(hay, k + 1, k + Len(needle)) = needle

\* C10: no line written to the console holds the raw value of the access
\* token or installation token of the invocation.
C10_NoRawTokenPrinted ==
  ctx.accessToken # NoToken =>
    \A i \in DOMAIN stdout : ~Contains(stdout[i].tok, ctx.accessToken)

(* ---------------------------------------------------------------------- *)
(* Token output: the three places that print a token, for every length     *)
(* ---------------------------------------------------------------------- *)

\* The secrets of the masking specification: every length up to the bound.
MaxSecretLen == 20
Secrets == {Token(n) : n \in 1..MaxSecretLen}

\* The commands that print the token they obtained.
TokenCommands ==
  { <<"psc", "auth token">>, <<"psc", "auth status">>,
    <<"lite", "auth token">>, <<"gh", "token-only">> }

\* The invocation has just received its token.
MaskInit ==
  /\ \E command \in TokenCommands : impl = command[1] /\ cmd = command[2]
  /\ cred = Sources("valid", "valid", "absent", "valid")
  /\ options = DefaultOptions
  /\ args = Args(FALSE, "file", <<>>, Undef, "readable")
  /\ pc = "gotToken"
  /\ \E secret \in Secrets :
       ctx = [Context EXCEPT !.accessToken = secret, !.source = "explicit"]
  /\ calls = << [Call(IF impl = "gh" THEN "installationToken" ELSE "tokenExchange",
                      Undef, NoToken, NoRelease) EXCEPT !.result = "ok"] >>
  /\ stdout = <<>>
  /\ stderr = <<>>
  /\ exitCode = Running

\* The command prints what it shows of the token and returns.
PrintToken ==
  /\ pc = "gotToken"
  /\ CASE impl = "psc" -> pscAuthOutput(ctx.accessToken, calls, ctx)
       [] impl = "lite" -> liteMain(calls, ctx)
       [] OTHER ->
            Return(calls, ctx,
                   <<Line("appId", "app"), Line("installationId", "inst"),
                     TokenLine("token", maskToken(ctx.accessToken)),
                     Line("expiresAt", "expires_at")>>)

MaskNext == PrintToken

MaskSpec == MaskInit /\ [][MaskNext]_vars

\* What the invocation printed of its token, and the prefix and suffix
\* lengths its masking is documented with.
Masked == SelectSeq(stdout, LAMBDA line : line.tok # <<>>)
PrefixLen == CASE impl = "psc" -> 10 [] impl = "lite" -> 12 [] OTHER -> 6
SuffixLen == CASE impl = "psc" -> 6 [] impl = "lite" -> 0 [] OTHER -> 4
Secret == ctx.accessToken

\* C11: a token no longer than prefixLen + suffixLen is printed as a run of
\* the redaction character of the token's length, and no character of the
\* token is printed; for maskValue 10/6, maskToken 6/4 and the auth token
\* output of the fetch-based psc.
C11_ShortSecretFullyRedacted ==
  pc = "done" /\ Len(Secret) <= PrefixLen + SuffixLen =>
    /\ Len(Masked) = 1
    /\ Masked[1].tok = [i \in 1..Len(Secret) |-> Star]
    /\ Range(Masked[1].tok) \cap Range(Secret) = {}

\* The characters of the token at positions prefixLen + 1 .. length - suffixLen.
Hidden == {Secret[i] : i \in (PrefixLen + 1)..(Len(Secret) - SuffixLen)}

\* C12: a token longer than prefixLen + suffixLen is printed as its first
\* prefixLen characters, "...", and its last suffixLen characters; none of the
\* characters in between is printed, and the printed prefix and suffix are
\* disjoint parts of the token.
C12_LongSecretShowsOnlyEnds ==
  pc = "done" /\ Len(Secret) > PrefixLen + SuffixLen =>
    /\ Len(Masked) = 1
    /\ Len(Masked[1].tok) = PrefixLen + 3 + SuffixLen
    /\ \A i \in 1..PrefixLen : Masked[1].tok[i] = Secret[i]
    /\ \A i \in 1..3 : Masked[1].tok[PrefixLen + i] = Dot
    /\ \A i \in 1..SuffixLen :
         Masked[1].tok[PrefixLen + 3 + i] = Secret[Len(Secret) - SuffixLen + i]
    /\ Range(Masked[1].tok) \cap Hidden = {}
    /\ PrefixLen < Len(Secret) - SuffixLen + 1

C12_Witness ==
  /\ pc = "done" /\ impl = "gh" /\ Len(Secret) = 11
  /\ Masked[1].tok = <<1, 2, 3, 4, 5, 6, Dot, Dot, Dot, 8, 9, 10, 11>>

(* ---------------------------------------------------------------------- *)
(* Credential sources: every combination of the four sources               *)
(* ---------------------------------------------------------------------- *)

\* An inline JSON string is not a path: it cannot name a missing file.
InlineStates == SourceStates \ {"nofile"}

AllCredEnvs ==
  {Sources(i, e, p, s) : i \in InlineStates, e \in SourceStates,
                         p \in SourceStates, s \in SourceStates}

\* Invocations of commands that need a credential, in every environment.
LoaderInit ==
  /\ impl \in {"psc", "lite", "gh"}
  /\ cmd \in (CASE impl = "psc" -> {"auth token", "tracks get", "publish submit"}
                [] impl = "lite" -> {"tracks get", "publish submit"}
                [] OTHER -> {"run"})
  /\ cred \in AllCredEnvs
  /\ options = DefaultOptions
  /\ args = Args(TRUE, "file", <<>>, Undef, "readable")
  /\ pc = "start"
  /\ calls = <<>>
  /\ ctx = Context
  /\ stdout = <<>>
  /\ stderr = <<>>
  /\ exitCode = Running

LoaderSpec == LoaderInit /\ [][Next]_vars

IsLoader == impl \in {"psc", "lite"}

\* The order of the sources as the spec gives it, and as part_003 has it.
SpecOrder == <<"inline", "explicit", "envPath", "std">>
LiteOrder == <<"explicit", "envPath", "inline">>

\* The first populated source of an environment in an order, with its place.
FirstIndex(order, c) ==
  IF \A i \in DOMAIN order : c[order[i]] = "absent" THEN 0
  ELSE CHOOSE i \in DOMAIN order :
         c[order[i]] # "absent" /\ \A j \in 1..(i - 1) : c[order[j]] = "absent"
FirstPopulated(order, c) ==
  IF FirstIndex(order, c) = 0 THEN "none" ELSE order[FirstIndex(order, c)]

\* The loader of the running program, as a function of the environment.
LoaderResult(c) ==
  IF impl = "psc" THEN loadServiceAccountCredentials(c) ELSE readServiceAccount(c)

\* The environments that agree with the current one on every source up to
\* and including its first populated one.
SameUpToFirst(order) ==
  {d \in AllCredEnvs : \A j \in 1..FirstIndex(order, cred) : d[order[j]] = cred[order[j]]}

CredentialLoaded == IsLoader /\ pc = "awaitToken" /\ Len(calls) = 1

\* C13 as stated: in both psc programs the credential in use comes from the
\* first populated source in the order inline, explicit path, alternate-path
\* variable, standard variable, and what the loader returns does not depend
\* on any source after that one.
C13_InlineFirstEverywhere ==
  CredentialLoaded =>
    /\ ctx.source = FirstPopulated(SpecOrder, cred)
    /\ \A d \in SameUpToFirst(SpecOrder) : LoaderResult(d) = LoaderResult(cred)

\* C13 as amended: part_002 uses the order inline, explicit path,
\* alternate-path variable, standard variable; part_003 uses the order
\* path option, path variable, inline JSON and has no standard variable. In
\* each program the credential comes from the first populated source of its
\* order and the result does not depend on any later source.
C13_FirstPopulatedSourceWins ==
  CredentialLoaded =>
    LET order == IF impl = "psc" THEN SpecOrder ELSE LiteOrder
    IN /\ ctx.source = FirstPopulated(order, cred)
       /\ cred[ctx.source] \in {"valid", "noemail"}
       /\ \A d \in SameUpToFirst(order) : LoaderResult(d) = LoaderResult(cred)

C13_Witness ==
  /\ CredentialLoaded /\ impl = "psc"
  /\ cred = Sources("absent", "absent", "valid", "malformed")
  /\ ctx.source = "envPath"

\* The state of the first populated source in the order of the running program.
OwnOrder == IF impl = "psc" THEN SpecOrder ELSE LiteOrder
FirstSourceState ==
  IF FirstPopulated(OwnOrder, cred) = "none" THEN "absent"
  ELSE cred[FirstPopulated(OwnOrder, cred)]
Unusable == {"malformed", "nofile", "noemail", "nokey"}

\* C14: when the first populated source is unusable (malformed JSON, missing
\* file, no client_email, no private_key) the invocation fails with an error
\* message and exit code 1, no credential of a later source is used, and no
\* token exchange or API request is ever sent.
C14_UnusableSourceFailsFast ==
  IsLoader /\ pc # "start" /\ FirstSourceState \in Unusable =>
    /\ pc = "failed" /\ exitCode = 1 /\ stderr # <<>>
    /\ ctx.source = "none"
    /\ calls = <<>>

(* ---------------------------------------------------------------------- *)
(* Token exchange and transport                                            *)
(* ---------------------------------------------------------------------- *)

ExchangeOps == {"tokenExchange", "installationToken"}

\* The places of the token requests among the requests of the invocation.
Exchanges == {i \in DOMAIN calls : calls[i].op \in ExchangeOps}

\* Every API call comes after a token request that succeeded, carries the
\* token the invocation holds, and no token is requested after an API call;
\* a failed token request is the last request of the invocation.
OneTokenForAllCalls ==
  /\ \A i \in DOMAIN calls :
       calls[i].op \in ApiOps =>
         /\ \E j \in 1..(i - 1) : calls[j].op \in ExchangeOps /\ calls[j].result = "ok"
         /\ calls[i].token = ctx.accessToken
         /\ \A j \in DOMAIN calls : j > i => calls[j].op \notin ExchangeOps
  /\ \A i \in Exchanges : calls[i].result = "failed" => i = Len(calls) /\ pc = "failed"

AsksAgain == impl = "psc" /\ cmd \in {"auth token", "auth status"}

TokenMissing ==
  /\ ctx.accessToken = NoToken
  /\ \E i \in Exchanges : calls[i].result = "ok"

HardTokenError ==
  /\ pc = "failed" /\ exitCode = 1 /\ stderr # <<>>
  /\ ApiCalls = <<>>
  /\ ctx.spawned = 0
  /\ LastCall.op \in ExchangeOps

\* C16: a successful token response without access_token / token ends the
\* invocation with an error and exit code 1; no API call is issued and no gh
\* process is started.
C16_MissingTokenFatalEverywhere ==
  TokenMissing => HardTokenError

\* The requests of the invocation that were answered with a non-2xx response.
RefusedCalls == {i \in DOMAIN calls : calls[i].result = "failed"}


Outstanding == {i \in DOMAIN calls : calls[i].result = "pending"}

\* C18: at most one request of an invocation is outstanding at any time: a
\* request is issued only when every earlier request (token exchange,
\* createEdit, uploadBundle, updateTrack, validateEdit, commitEdit) has been
\* answered, and none is outstanding once the invocation has ended or has
\* started gh.
C18_OneRequestOutstanding ==
  /\ Cardinality(Outstanding) <= 1
  /\ \A i \in Outstanding : i = Len(calls) /\ pc \notin {"done", "failed", "awaitGh"}
  /\ \A i \in DOMAIN calls : i < Len(calls) => calls[i].result = "ok"

C18_Witness ==
  /\ IsSubmit /\ pc = "awaitValidate" /\ Len(calls) = 5
  /\ Outstanding = {5}
  /\ calls[5].op = "validateEdit" /\ calls[4].op = "updateTrack" /\ calls[4].result = "ok"

(* ---------------------------------------------------------------------- *)
(* Two publish submit invocations against the same package and track       *)
(*                                                                         *)
(* In RaceSpec pc, ctx, stdout, stderr and exitCode are indexed by the      *)
(* invocation, and calls is the order in which the server received the     *)
(* requests of both, each marked with the invocation that sent it.         *)
(* ---------------------------------------------------------------------- *)

Invocations == {1, 2}

\* What the server answers in the race: one token, the version code of the
\* bundle each invocation uploads, one kind of refusal.
RaceTokens == {Token(14)}
RaceVersionCodes == {"42", "43"}
RaceStatus == "500"

RaceInit ==
  /\ impl \in {"psc", "lite"}
  /\ cmd = "publish submit"
  /\ cred = Sources("valid", "absent", "absent", "absent")
  /\ options = DefaultOptions
  /\ args = Args(TRUE, "file", <<>>, Undef, "readable")
  /\ pc = [i \in Invocations |-> "start"]
  /\ calls = <<>>
  /\ ctx = [i \in Invocations |-> Context]
  /\ stdout = [i \in Invocations |-> <<>>]
  /\ stderr = [i \in Invocations |-> <<>>]
  /\ exitCode = [i \in Invocations |-> Running]

By(i, call) == [by |-> i] @@ call

\* The request of invocation i that is not answered yet.
PendingOf(i) == CHOOSE k \in DOMAIN calls : calls[k].by = i /\ calls[k].result = "pending"
Answered(i) == [calls EXCEPT ![PendingOf(i)].result = "ok"]
RefusedTo(i) ==
  [calls EXCEPT ![PendingOf(i)].result = "failed", ![PendingOf(i)].status = RaceStatus]

RaceThrow(i, error, callsNew) ==
  /\ pc' = [pc EXCEPT ![i] = "failed"]
  /\ calls' = callsNew
  /\ stderr' = [stderr EXCEPT ![i] = @ \o report(error)]
  /\ exitCode' = [exitCode EXCEPT ![i] = 1]
  /\ UNCHANGED <<ctx, stdout, inputs>>

RaceAwait(i, at, call, callsNew, ctxNew) ==
  /\ pc' = [pc EXCEPT ![i] = at]
  /\ calls' = Append(callsNew, By(i, call))
  /\ ctx' = [ctx EXCEPT ![i] = ctxNew]
  /\ UNCHANGED <<stdout, stderr, exitCode, inputs>>

RaceRejects(i, at) ==
  /\ pc[i] = at
  /\ RaceThrow(i, requestError(RaceStatus, Undef), RefusedTo(i))
\* Invocation i waits until no other invocation is under way (a lock).
RaceStartLocked(i) ==
  /\ pc[i] = "start"
  /\ \A j \in Invocations \ {i} : pc[j] \in {"start", "done", "failed"}
  /\ RaceAwait(i, "awaitToken", Call("tokenExchange", Undef, NoToken, NoRelease),
               calls, [ctx[i] EXCEPT !.source = LoaderResult(cred).source])

(* createContext / main up to the token request *)
RaceStart(i) ==
  /\ pc[i] = "start"
  /\ RaceAwait(i, "awaitToken", Call("tokenExchange", Undef, NoToken, NoRelease),
               calls, [ctx[i] EXCEPT !.source = LoaderResult(cred).source])

RaceTokenReturns(i) ==
  /\ pc[i] = "awaitToken"
  /\ \/ RaceThrow(i, IF impl = "psc" THEN ApiError(RaceStatus, Undef)
                     ELSE exchangeError(RaceStatus, Undef), RefusedTo(i))
     \/ \E token \in RaceTokens :
          RaceAwait(i, "awaitCreate", editsCreate(token), Answered(i),
                    [ctx[i] EXCEPT !.accessToken = token])

\* The server gives every new edit an id of its own.
RaceCreateReturns(i) ==
  \/ RaceRejects(i, "awaitCreate")
  \/ /\ pc[i] = "awaitCreate"
     /\ \E id \in (EditIds \ {ctx[j].editId : j \in Invocations}) \cup {Undef} :
          IF id = Undef
          THEN RaceThrow(i, IF impl = "psc" THEN CliError("edit create failed: no editId")
                            ELSE PlainError(<<"edit create failed: missing editId">>),
                         Answered(i))
          ELSE RaceAwait(i, "awaitUpload", bundlesUpload(id, ctx[i].accessToken),
                         Answered(i), [ctx[i] EXCEPT !.editId = id])

RaceUploadReturns(i) ==
  \/ RaceRejects(i, "awaitUpload")
  \/ /\ pc[i] = "awaitUpload"
     /\ \E versionCode \in RaceVersionCodes \cup {Undef} :
          LET built == buildReleaseFromOptions(options, <<versionCode>>)
              release == IF impl = "psc" THEN built.value
                         ELSE tracksUpdateRelease(options, <<versionCode>>)
          IN IF versionCode = Undef
             THEN RaceThrow(i, IF impl = "psc"
                               THEN CliError("AAB upload response has no versionCode")
                               ELSE PlainError(<<"bundle upload failed: missing versionCode">>),
                            Answered(i))
             ELSE IF impl = "psc" /\ ~built.ok
             THEN RaceThrow(i, built.error, Answered(i))
             ELSE RaceAwait(i, "awaitTrackUpdate",
                            tracksUpdate(ctx[i].editId, release, ctx[i].accessToken),
                            Answered(i),
                            [ctx[i] EXCEPT !.versionCode = versionCode, !.release = release])

RaceUpdateReturns(i) ==
  \/ RaceRejects(i, "awaitTrackUpdate")
  \/ /\ pc[i] = "awaitTrackUpdate"
     /\ RaceAwait(i, "awaitValidate", editsValidate(ctx[i].editId, ctx[i].accessToken),
                  Answered(i), ctx[i])

RaceValidateReturns(i) ==
  \/ RaceRejects(i, "awaitValidate")
  \/ /\ pc[i] = "awaitValidate"
     /\ RaceAwait(i, "awaitCommit", editsCommit(ctx[i].editId, ctx[i].accessToken),
                  Answered(i), ctx[i])

RaceCommitReturns(i) ==
  \/ RaceRejects(i, "awaitCommit")
  \/ /\ pc[i] = "awaitCommit"
     /\ pc' = [pc EXCEPT ![i] = "done"]
     /\ calls' = Answered(i)
     /\ ctx' = [ctx EXCEPT ![i].commitId = ctx[i].editId]
     /\ stdout' = [stdout EXCEPT ![i] =
                     IF impl = "psc" THEN pscSubmitOutput(ctx[i], ctx[i].editId)
                     ELSE liteSubmitOutput(ctx[i], ctx[i].editId)]
     /\ exitCode' = [exitCode EXCEPT ![i] = 0]
     /\ UNCHANGED <<stderr, inputs>>

RaceStep(i) ==
  \/ RaceStart(i)
  \/ RaceTokenReturns(i)
  \/ RaceCreateReturns(i)
  \/ RaceUploadReturns(i)
  \/ RaceUpdateReturns(i)
  \/ RaceValidateReturns(i)
  \/ RaceCommitReturns(i)

RaceNext == \E i \in Invocations : RaceStep(i)

RaceSpec == RaceInit /\ [][RaceNext]_vars

\* The commits the server accepted, in the order it received them, and the
\* release each of them made live on the track.
Commits == SelectSeq(calls, LAMBDA c : c.op = "commitEdit" /\ c.result = "ok")
ReleaseOf(editId) ==
  LET k == CHOOSE k \in DOMAIN calls : calls[k].op = "updateTrack" /\ calls[k].editId = editId
  IN calls[k].release
LiveHistory == [k \in DOMAIN Commits |-> ReleaseOf(Commits[k].editId)]

Creates == SelectSeq(calls, LAMBDA c : c.op = "createEdit")

\* C19: two publish submit invocations are not synchronized by the client:
\* each sends one createEdit of its own and works on the edit it was given,
\* never on the other's, and whatever the other invocation is doing, an
\* invocation that has not ended can take its next step without failing.
C19_NoClientSynchronization ==
  /\ \A i \in Invocations :
       Cardinality({k \in DOMAIN calls : calls[k].by = i /\ calls[k].op = "createEdit"}) <= 1
  /\ \A k \in DOMAIN calls :
       calls[k].op \in Range(SubmitOrder) \ {"createEdit"} =>
         /\ calls[k].editId = ctx[calls[k].by].editId
         /\ \A j \in Invocations \ {calls[k].by} : calls[k].editId # ctx[j].editId
  /\ \A i \in Invocations :
       pc[i] \notin {"done", "failed"} => ENABLED (RaceStep(i) /\ pc'[i] # "failed")

\* Both invocations committed; the one that created its edit first committed
\* last, and its release replaced the release the other had made live.
C19_Witness ==
  /\ \A i \in Invocations : pc[i] = "done" /\ exitCode[i] = 0
  /\ Len(Commits) = 2 /\ Commits[1].by = 2 /\ Commits[2].by = 1
  /\ Creates[1].by = 1
  /\ LiveHistory[1] # LiveHistory[2]
  /\ LiveHistory[2] = ctx[1].release

(* ---------------------------------------------------------------------- *)
(* The error boundary                                                      *)
(* ---------------------------------------------------------------------- *)

\* What the boundary writes for one error: one line in part_002 and for the
\* missing gh arguments of psc-gh, a banner and the message otherwise.
OneErrorMessage ==
  CASE impl = "psc" -> Len(stderr) = 1 /\ Head(stderr[1]) = "Error: "
    [] impl = "lite" -> Len(stderr) = 2 /\ stderr[1] = <<"[psc] failed">>
    [] OTHER -> \/ stderr = << <<"no gh arguments to run">> >>
                \/ Len(stderr) = 2 /\ stderr[1] = <<"[psc-gh] failed">>

\* An invocation that ended: a failure is reported once with exit code 1 and
\* every refused request is a failure; success means exit code 0, nothing on
\* stderr and no refused request.
ErrorsReachBoundary ==
  /\ RefusedCalls # {} => pc = "failed"
  /\ pc = "failed" => exitCode = 1 /\ OneErrorMessage /\ Outstanding = {}
  /\ pc = "done" => exitCode = 0 /\ stderr = <<>> /\ RefusedCalls = {}
  /\ pc \notin {"done", "failed"} => exitCode = Running /\ stderr = <<>>

\* The error of reading package.json was caught and the default version used.
VersionErrorSwallowed ==
  impl = "psc" /\ pc # "start" /\ args.packageJson = "unreadable"

\* C20 as stated: every error raised in an invocation ends it with one
\* error message and a non-zero exit code; none is caught and replaced by a
\* default value while the invocation goes on to exit 0.
C20_NoErrorSwallowed ==
  /\ ErrorsReachBoundary
  /\ VersionErrorSwallowed => ~(pc = "done" /\ exitCode = 0)

\* C20 as amended: as stated for every error but the failure of part_002 to
\* read its package.json, which readPackageVersion replaces by the version
\* 0.1.0 without ending the invocation (and the failure of psc-gh to parse a
\* response body, after which the invocation still ends with an error).
C20_ErrorsFatalButVersionRead ==
  /\ ErrorsReachBoundary
  /\ VersionErrorSwallowed => ctx.version = "0.1.0"

C20_Witness ==
  /\ impl = "gh" /\ cmd = "run" /\ ctx.spawned = 1
  /\ pc = "failed" /\ exitCode = 1
  /\ stderr = << <<"[psc-gh] failed">>, <<"gh exited with code ", "127">> >>

(* ---------------------------------------------------------------------- *)
(* Release-notes files                                                     *)
(* ---------------------------------------------------------------------- *)

\* Release-notes files of up to MaxNotes entries.  The languages are not
\* integer-like, so Object.entries keeps the order of the file; an array
\* entry may lack its language field.
MaxNotes == 2
NoteLanguages == {"en-US", "ko-KR", ""}

NoteLists(languages) ==
  UNION { [1..n -> {Note(language, text) : language \in languages,
                                           text \in {"Bug fixes", "", Null}}] :
          n \in 0..MaxNotes }

DistinctKeys(items) ==
  \A i, j \in DOMAIN items : items[i].language = items[j].language => i = j

AllNotesFiles ==
  {NotesArray(items) : items \in NoteLists(NoteLanguages \cup {Undef})}
  \cup {NotesObject(items) : items \in {l \in NoteLists(NoteLanguages) : DistinctKeys(l)}}

\* part_002 invocations that read --release-notes-file.
NotesInit ==
  /\ impl = "psc"
  /\ cmd \in ReleaseCommands
  /\ cred = Sources("absent", "valid", "absent", "absent")
  /\ options \in {Options(Undef, Undef, Undef, file, Undef) : file \in AllNotesFiles}
  /\ args = Args(TRUE, "file", IF cmd = "tracks update" THEN <<<<"12">>>> ELSE <<>>,
                 Undef, "readable")
  /\ pc = "start"
  /\ calls = <<>>
  /\ ctx = Context
  /\ stdout = <<>>
  /\ stderr = <<>>
  /\ exitCode = Running

NotesNext ==
  \/ Start
  \/ TokenExchangeReturns
  \/ CreateEditReturns
  \/ UploadBundleReturns
  \/ UpdateTrackReturns
  \/ ValidateEditReturns
  \/ CommitEditReturns

NotesSpec == NotesInit /\ [][NotesNext]_vars

\* The file of the other form with the same language/text pairs in the same
\* order, where there is one.
HasTwin(file) ==
  /\ file.kind \in {"array", "object"}
  /\ DistinctKeys(file.items)
  /\ \A i \in DOMAIN file.items : file.items[i].language # Undef
Twin(file) ==
  IF file.kind = "array" THEN NotesObject(file.items) ELSE NotesArray(file.items)

NotesErrors ==
  { "release notes array items need language and text",
    "release notes object is empty", "release notes must be an array or an object" }

\* The invocation has read its release-notes file: it sent the release, or
\* it stopped on what the file holds.
UpdateTrackCalls == SelectSeq(calls, LAMBDA call : call.op = "updateTrack")
NotesRead ==
  \/ UpdateTrackCalls # <<>>
  \/ pc = "failed" /\ Reported \cap NotesErrors # {}

WellFormedNotes(notes) ==
  notes.present =>
    /\ notes.items # <<>>
    /\ \A i \in DOMAIN notes.items :
         notes.items[i].language \notin Falsy /\ notes.items[i].text \notin Falsy

TwinsAlike(file) ==
  HasTwin(file) =>
    /\ loadReleaseNotes(file).ok = loadReleaseNotes(Twin(file)).ok
    /\ loadReleaseNotes(file).value = loadReleaseNotes(Twin(file)).value

\* C21: a release-notes file in array form and one in object form with the
\* same language/text pairs in the same order give the identical
\* releaseNotes value; every entry of the releaseNotes of a release that is
\* sent has a non-empty language and a non-empty text; and an empty array
\* or object is rejected with a validation error, no release being sent.
C21_NotesFormsNormalizeAlike ==
  LET file == options.releaseNotesFile
  IN /\ NotesRead => TwinsAlike(file)
     /\ \A i \in DOMAIN UpdateTrackCalls :
          WellFormedNotes(UpdateTrackCalls[i].release.releaseNotes)
     /\ file.items = <<>> => UpdateTrackCalls = <<>>

\* Files whose entries all have a language and a text: the two forms agree
\* and the release that is sent carries exactly the entries of the file.
NotesAgreeWhenTextsGiven ==
  LET file == options.releaseNotesFile
  IN (NotesRead /\ file.items # <<>>
      /\ \A i \in DOMAIN file.items :
           file.items[i].language \notin Falsy /\ file.items[i].text \notin Falsy)
     => /\ TwinsAlike(file)
        /\ \A i \in DOMAIN UpdateTrackCalls :
             /\ WellFormedNotes(UpdateTrackCalls[i].release.releaseNotes)
             /\ UpdateTrackCalls[i].release.releaseNotes = Notes(file.items)

(* ---------------------------------------------------------------------- *)
(* Version codes of tracks update                                          *)
(* ---------------------------------------------------------------------- *)

\* Command lines with up to MaxCodes comma-separated items in all, spread
\* over any number of --version-code (part_003: --version-codes) flags.
MaxCodes == 3

RECURSIVE ArgsOfSize(_)
ArgsOfSize(n) ==
  IF n = 0 THEN {<<>>}
  ELSE UNION { {<<value>> \o rest : value \in [1..k -> VersionItems],
                                    rest \in ArgsOfSize(n - k)} : k \in 1..n }

AllVersionCodeArgs == UNION {ArgsOfSize(n) : n \in 0..MaxCodes}

\* `tracks update` of both psc programs, on every such command line.
CodesInit ==
  /\ impl \in {"psc", "lite"}
  /\ cmd = "tracks update"
  /\ cred = Sources("absent", "valid", "absent", "absent")
  /\ options = DefaultOptions
  /\ args \in {Args(TRUE, "file", versionCode, Undef, "readable") :
                 versionCode \in AllVersionCodeArgs}
  /\ pc = "start"
  /\ calls = <<>>
  /\ ctx = Context
  /\ stdout = <<>>
  /\ stderr = <<>>
  /\ exitCode = Running

CodesNext ==
  \/ Start
  \/ TokenExchangeReturns
  \/ UpdateTrackReturns

CodesSpec == CodesInit /\ [][CodesNext]_vars

\* The codes given on the command line, in the order they were given.
GivenCodes == SelectSeq(Flatten(args.versionCode), LAMBDA item : item # "")

NoDuplicates(list) == \A i, j \in DOMAIN list : list[i] = list[j] => i = j

\* C22: the versionCodes of every release `tracks update` sends is
\* non-empty, has no duplicates, keeps the first-occurrence order of the
\* codes given on the command line, and holds only decimal strings of
\* positive integers; when a given item is not such a number or no code is
\* given, no updateTrack request is sent and the invocation does not succeed.
C22_VersionCodesOrderedSet ==
  /\ \A i \in DOMAIN UpdateTrackCalls :
       LET versionCodes == UpdateTrackCalls[i].release.versionCodes
       IN /\ versionCodes # <<>>
          /\ NoDuplicates(versionCodes)
          /\ versionCodes = Unique(GivenCodes)
          /\ Range(versionCodes) \subseteq NumericItems
  /\ (GivenCodes = <<>> \/ ~(Range(GivenCodes) \subseteq NumericItems))
       => UpdateTrackCalls = <<>> /\ pc # "done"

\* part_002 on command lines without the code 0: the claim holds.
PscCodesWithoutZero ==
  (impl = "psc" /\ "0" \notin Range(GivenCodes)) => C22_VersionCodesOrderedSet

(* ---------------------------------------------------------------------- *)
(* Signed assertions                                                       *)
(* ---------------------------------------------------------------------- *)

\* Texts are sequences of bytes (ASCII codes).  Base64 text is a sequence
\* of characters: the 64 digits of the alphabet by their value, of which
\* 62 is "+" and 63 is "/", and the characters "=", "-", "_" and ".".
Base64Char ==
  [plus |-> 62, slash |-> 63, pad |-> 64, minus |-> 65, underscore |-> 66, dot |-> 67]

\* text.replace(/from/g, to) for a one-character pattern
Replace(text, from, to) ==
  [i \in DOMAIN text |-> IF text[i] = from THEN to ELSE text[i]]

RECURSIVE StripTrailing(_, _)
\* .replace(/=+$/g, "")
StripTrailing(text, char) ==
  IF text # <<>> /\ text[Len(text)] = char
  THEN StripTrailing(SubSeq(text, 1, Len(text) - 1), char)
  ELSE text

RECURSIVE toBase64(_)
\* Buffer.from(input).toString("base64")
toBase64(bytes) ==
  IF bytes = <<>> THEN <<>>
  ELSE IF Len(bytes) = 1
       THEN LET n == bytes[1] * 65536
            IN <<n \div 262144, (n \div 4096) % 64, Base64Char.pad, Base64Char.pad>>
  ELSE IF Len(bytes) = 2
       THEN LET n == bytes[1] * 65536 + bytes[2] * 256
            IN <<n \div 262144, (n \div 4096) % 64, (n \div 64) % 64, Base64Char.pad>>
  ELSE LET n == bytes[1] * 65536 + bytes[2] * 256 + bytes[3]
       IN <<n \div 262144, (n \div 4096) % 64, (n \div 64) % 64, n % 64>>
          \o toBase64(SubSeq(bytes, 4, Len(bytes)))

\* The "=" padding is kept.
toBase64UrlPadded(input) ==
  Replace(Replace(toBase64(input), Base64Char.plus, Base64Char.minus),
          Base64Char.slash, Base64Char.underscore)

toBase64Url(input) ==
  StripTrailing(Replace(Replace(toBase64(input), Base64Char.plus, Base64Char.minus),
                        Base64Char.slash, Base64Char.underscore),
                Base64Char.pad)

\* A JSON value of type "str" (its bytes), "num" (the integer n), "nan" or
\* "undef", and a member of an object.
Json(t, bytes, n) == [t |-> t, bytes |-> bytes, n |-> n]
Member(key, value) == [key |-> key, value |-> value]

RECURSIVE Digits(_)
\* A number as JSON.stringify writes it.
Digits(n) ==
  IF n < 0 THEN <<45>> \o Digits(0 - n)
  ELSE IF n < 10 THEN <<48 + n>>
  ELSE Digits(n \div 10) \o <<48 + (n % 10)>>

RECURSIVE JoinMembers(_)
\* "key":value,"key":value ...; NaN is written as null.
JoinMembers(members) ==
  IF members = <<>> THEN <<>>
  ELSE LET value == Head(members).value
           text == <<34>> \o Head(members).key \o <<34, 58>> \o
                   (CASE value.t = "str" -> <<34>> \o value.bytes \o <<34>>
                      [] value.t = "num" -> Digits(value.n)
                      [] OTHER -> <<110, 117, 108, 108>>)
       IN IF Tail(members) = <<>> THEN text
          ELSE text \o <<44>> \o JoinMembers(Tail(members))

\* JSON.stringify of an object whose string members need no escaping:
\* undefined members are left out.
stringify(members) ==
  <<123>> \o JoinMembers(SelectSeq(members, LAMBDA m : m.value.t # "undef")) \o <<125>>

\* { alg: "RS256", typ: "JWT" }
JwtHeader ==
  << Member(<<97, 108, 103>>, Json("str", <<82, 83, 50, 53, 54>>, 0)),
     Member(<<116, 121, 112>>, Json("str", <<74, 87, 84>>, 0)) >>

\* "https://www.googleapis.com/auth/androidpublisher"
PLAY_SCOPE ==
  <<104, 116, 116, 112, 115, 58, 47, 47, 119, 119, 119, 46, 103, 111, 111, 103, 108,
    101, 97, 112, 105, 115, 46, 99, 111, 109, 47, 97, 117, 116, 104, 47, 97, 110, 100,
    114, 111, 105, 100, 112, 117, 98, 108, 105, 115, 104, 101, 114>>

\* part_003 exchangeAccessToken: the claims iss, scope, aud (the token URL
\* "https://oauth2.googleapis.com/token"), iat, exp of the assertion
assertionPayload(clientEmail, now) ==
  << Member(<<105, 115, 115>>, clientEmail),
     Member(<<115, 99, 111, 112, 101>>, Json("str", PLAY_SCOPE, 0)),
     Member(<<97, 117, 100>>,
            Json("str", <<104, 116, 116, 112, 115, 58, 47, 47, 111, 97, 117, 116, 104,
                          50, 46, 103, 111, 111, 103, 108, 101, 97, 112, 105, 115, 46,
                          99, 111, 109, 47, 116, 111, 107, 101, 110>>, 0)),
     Member(<<105, 97, 116>>, Json("num", <<>>, now)),
     Member(<<101, 120, 112>>, Json("num", <<>>, now + 3600)) >>

\* The app JWT expires 600 seconds after `now`.
signJwtPayloadLongLived(appId, now) ==
  << Member(<<105, 97, 116>>, Json("num", <<>>, now - 60)),
     Member(<<101, 120, 112>>, Json("num", <<>>, now + 600)),
     Member(<<105, 115, 115>>, appId) >>

\* psc-gh signJwt: the claims iat, exp, iss of the app JWT
signJwtPayload(appId, now) ==
  << Member(<<105, 97, 116>>, Json("num", <<>>, now - 60)),
     Member(<<101, 120, 112>>, Json("num", <<>>, now + 540)),
     Member(<<105, 115, 115>>, appId) >>

\* part_003 buildJwt / psc-gh signJwt, given what signer.sign returns
buildJwt(header, payload, signature) ==
  toBase64Url(stringify(header)) \o <<Base64Char.dot>> \o toBase64Url(stringify(payload))
    \o <<Base64Char.dot>> \o toBase64Url(signature)

\* An RSA signature has the length of the key; its bytes are any.
MaxKeyBytes == 3
Signatures == UNION { [1..n -> {0, 251, 255}] : n \in 1..MaxKeyBytes }

\* Math.floor(Date.now() / 1000)
Times == {0, 59, 1762000000, 2147480000}

\* serviceAccount.client_email: "a@b.c", "?>~@x.io", or missing
ClientEmails ==
  { Json("str", <<97, 64, 98, 46, 99>>, 0),
    Json("str", <<63, 62, 126, 64, 120, 46, 105, 111>>, 0),
    Json("undef", <<>>, 0) }
\* Number(appId): a number, or NaN
AppIds == { Json("num", <<>>, 2913321), Json("num", <<>>, 7), Json("nan", <<>>, 0) }

\* The two programs that sign their own assertion, with a valid key loaded.
JwtInit ==
  /\ impl \in {"lite", "gh"}
  /\ cmd = (IF impl = "lite" THEN "auth token" ELSE "token-only")
  /\ cred = Sources("absent", "valid", "absent", "absent")
  /\ options = DefaultOptions
  /\ args \in { [issuer |-> issuer] @@ Args(TRUE, "file", <<>>, Undef, "readable") :
                issuer \in IF impl = "lite" THEN ClientEmails ELSE AppIds }
  /\ pc = "start"
  /\ calls = <<>>
  /\ ctx = Context
  /\ stdout = <<>>
  /\ stderr = <<>>
  /\ exitCode = Running

\* exchangeAccessToken / issueInstallationToken up to the fetch: the
\* assertion is built at time `now`, signed, and sent with the request.
SendAssertion ==
  /\ pc = "start"
  /\ \E now \in Times, signature \in Signatures :
       LET payload == IF impl = "lite" THEN assertionPayload(args.issuer, now)
                      ELSE signJwtPayload(args.issuer, now)
           jwt == buildJwt(JwtHeader, payload, signature)
       IN Await(IF impl = "lite" THEN "awaitToken" ELSE "awaitInstallationToken",
                Call(IF impl = "lite" THEN "tokenExchange" ELSE "installationToken",
                     Undef, jwt, NoRelease),
                calls,
                [now |-> now, payload |-> payload, signature |-> signature]
                  @@ [ctx EXCEPT !.source = "explicit"],
                <<>>)

JwtSpec == JwtInit /\ [][SendAssertion]_vars

RECURSIVE Split(_, _)
\* text.split(separator)
Split(text, separator) ==
  IF \A i \in DOMAIN text : text[i] # separator THEN <<text>>
  ELSE LET at == CHOOSE i \in DOMAIN text :
                   text[i] = separator /\ \A j \in 1..(i - 1) : text[j] # separator
       IN <<SubSeq(text, 1, at - 1)>> \o Split(SubSeq(text, at + 1, Len(text)), separator)

RECURSIVE DecodeSextets(_)
DecodeSextets(sextets) ==
  IF Len(sextets) < 2 THEN <<>>
  ELSE IF Len(sextets) = 2
       THEN <<(sextets[1] * 64 + sextets[2]) \div 16>>
  ELSE IF Len(sextets) = 3
       THEN LET n == sextets[1] * 4096 + sextets[2] * 64 + sextets[3]
            IN <<n \div 1024, (n \div 4) % 256>>
  ELSE LET n == sextets[1] * 262144 + sextets[2] * 4096 + sextets[3] * 64 + sextets[4]
       IN <<n \div 65536, (n \div 256) % 256, n % 256>>
          \o DecodeSextets(SubSeq(sextets, 5, Len(sextets)))

\* The bytes a base64url text stands for.
fromBase64Url(text) ==
  DecodeSextets(Replace(Replace(text, Base64Char.minus, Base64Char.plus),
                        Base64Char.underscore, Base64Char.slash))

\* The assertion the invocation sent.
SentJwt == calls[1].token
Segments == Split(SentJwt, Base64Char.dot)
AssertionSent == pc \in {"awaitToken", "awaitInstallationToken"} /\ Len(calls) = 1

\* C23: the token the assertion builder returns splits on "." into exactly
\* three non-empty segments without "=", "+" or "/"; decoding the first
\* gives the JSON of the header and decoding the second the JSON of the
\* claims.
C23_JwtThreeSegmentsRoundTrip ==
  AssertionSent =>
    /\ Len(Segments) = 3
    /\ \A k \in 1..Len(Segments) :
         /\ Segments[k] # <<>>
         /\ Range(Segments[k]) \cap {Base64Char.pad, Base64Char.plus, Base64Char.slash} = {}
    /\ fromBase64Url(Segments[1]) = stringify(JwtHeader)
    /\ fromBase64Url(Segments[2]) = stringify(ctx.payload)
    /\ fromBase64Url(Segments[3]) = ctx.signature

\* An assertion was sent whose base64 text needed all three rewritings: a
\* "+" and a "/" were replaced and padding was stripped.
C23_Witness ==
  /\ AssertionSent
  /\ Base64Char.minus \in Range(SentJwt) /\ Base64Char.underscore \in Range(SentJwt)
  /\ \E k \in 1..3 : Len(Segments[k]) % 4 # 0
  /\ impl = "lite" /\ args.issuer.t = "str"

RECURSIVE ReadDigits(_, _, _)
ReadDigits(text, i, value) ==
  IF i <= Len(text) /\ text[i] \in 48..57
  THEN ReadDigits(text, i + 1, value * 10 + (text[i] - 48))
  ELSE value

\* The number written after `"key":` in a JSON text.
ClaimNumber(text, key) ==
  LET pattern == <<34>> \o key \o <<34, 58>>
      at == CHOOSE i \in 1..(Len(text) - Len(pattern)) :
              SubSeq(text, i, i + Len(pattern) - 1) = pattern
      first == at + Len(pattern)
  IN IF text[first] = 45 THEN 0 - ReadDigits(text, first + 1, 0)
     ELSE ReadDigits(text, first, 0)

\* The claims iat and exp read back from the assertion that was sent.
SentClaims == fromBase64Url(Segments[2])
SentIat == ClaimNumber(SentClaims, <<105, 97, 116>>)
SentExp == ClaimNumber(SentClaims, <<101, 120, 112>>)

\* C24: whatever the time `now` at which it is built, the app JWT of psc-gh
\* carries iat = now - 60 and exp = now + 540, a lifetime of at most 600
\* seconds, and the service-account assertion carries iat = now and
\* exp = now + 3600; in both iat < exp.
C24_AssertionLifetimes ==
  AssertionSent =>
    /\ impl = "gh" =>
         /\ SentIat = ctx.now - 60
         /\ SentExp = ctx.now + 540
         /\ SentExp - SentIat <= 600
    /\ impl = "lite" =>
         /\ SentIat = ctx.now
         /\ SentExp = ctx.now + 3600
    /\ SentIat < SentExp

\* An app JWT built in the first minute of the epoch, its iat negative, and
\* its lifetime the full 600 seconds.
C24_Witness ==
  /\ AssertionSent /\ impl = "gh"
  /\ ctx.now = 59 /\ SentIat = 0 - 1 /\ SentExp - SentIat = 600

(* ---------------------------------------------------------------------- *)
(* psc-gh                                                                  *)
(* ---------------------------------------------------------------------- *)

\* An installation token with a non-empty `token` field has been issued.
TokenIssued ==
  /\ \E i \in DOMAIN calls : calls[i].op = "installationToken" /\ calls[i].result = "ok"
  /\ ctx.accessToken # NoToken

\* C25: psc-gh spawns gh at most once, and only after an installation token
\* with a non-empty token was issued in the invocation; with --help there
\* is no token issuance and no spawn; with --token-only or without gh
\* arguments gh is never spawned; and when gh was spawned the invocation
\* exits 0 only if gh exited with code 0.
C25_GhSpawnedOnceAfterToken ==
  impl = "gh" =>
    /\ ctx.spawned <= 1
    /\ ctx.spawned = 1 => TokenIssued
    /\ cmd = "help" => calls = <<>> /\ ctx.spawned = 0
    /\ cmd \in {"token-only", "noargs"} => ctx.spawned = 0
    /\ (ctx.spawned = 1 /\ exitCode = 0) => ctx.ghCode = "0"

\* gh was spawned with an issued token, exited 0, and so did psc-gh.
C25_Witness ==
  /\ impl = "gh" /\ cmd = "run"
  /\ ctx.spawned = 1 /\ TokenIssued
  /\ pc = "done" /\ exitCode = 0 /\ ctx.ghCode = "0"

====
